---- MODULE Spec2Model ----
(***************************************************************************)
(* Model of start.py, the OnlyWorlds launcher: main() prints a banner,     *)
(* changes to the script directory, starts the daemon browser-opener       *)
(* thread, enables address reuse, and serves on port 8080 through          *)
(* socketserver.TCPServer, with HTTPServer as the fallback of the bare     *)
(* except.  The environment is the clients, the port's other users, the    *)
(* outcome of webbrowser.open and one keyboard interrupt per process.      *)
(***************************************************************************)
EXTENDS Integers, Sequences, FiniteSets, TLC

\* ---------------------------------------------------------------- bounds
NumClients == 2
MaxRuns == 2

Clients == 1..NumClients

\* ------------------------------------------------------------- constants
\* sys.exit(0) in both KeyboardInterrupt handlers
ShutdownStatus == 0
\* status of an interpreter that ends on an unhandled exception
UnhandledStatus == 1

Paths == {"index", "missing"}
Files == {"index"}

\* SimpleHTTPRequestHandler: an existing file is served, anything else is 404
Response(path) ==
  IF path \in Files THEN <<200, path>> ELSE <<404, "none">>

VARIABLES
  pc,                   \* position of the main thread in main()
  out,                  \* lines written to the console, in order
  cwd,                  \* the process's working directory
  chdirCount,           \* number of os.chdir calls made
  browser_thread,       \* state of the open_browser thread
  openCount,            \* number of webbrowser.open calls made
  openResult,           \* outcome of the webbrowser.open call
  allow_reuse_address,  \* socketserver.TCPServer.allow_reuse_address
  httpd,                \* state of the listening socket
  constructs,           \* server constructions attempted
  boundCount,           \* successful bind+listen
  bindFails,            \* failed bind+listen
  port,                 \* port 8080 as seen by bind()
  backlog,              \* connections waiting to be accepted
  handling,             \* connections whose handler is running
  cstate,               \* state of each client
  req,                  \* path each client requested
  resp,                 \* response each client received
  log,                  \* outcomes of the handled requests, in order
  intAt,                \* where the main thread was when interrupted
  exitCode,             \* status of the process, -1 while it runs
  runs                  \* number of processes started so far

vars ==
  <<pc, out, cwd, chdirCount, browser_thread, openCount, openResult,
    allow_reuse_address, httpd, constructs, boundCount, bindFails, port,
    backlog, handling, cstate, req, resp, log, intAt, exitCode, runs>>

mainVars ==
  <<pc, out, cwd, chdirCount, allow_reuse_address, httpd, constructs,
    boundCount, bindFails, intAt, exitCode>>

browserVars ==
  <<browser_thread, openCount, openResult>>

clientVars ==
  <<backlog, handling, cstate, req, resp, log>>

StartupPcs == {"banner", "chdir", "spawn", "reuse"}
ServingPcs == {"serving", "fb_serving"}
RunningPcs ==
  StartupPcs \cup {"construct", "fb_construct"} \cup ServingPcs

\* ------------------------------------------------ definitions of the code

\* straight-line order of main() up to the try statement
NextLineChdirLate(p) ==
  CASE p = "banner" -> "spawn"
    [] p = "spawn" -> "chdir"
    [] p = "chdir" -> "reuse"
    [] p = "reuse" -> "construct"

NextLine(p) ==
  CASE p = "banner" -> "chdir"
    [] p = "chdir" -> "spawn"
    [] p = "spawn" -> "reuse"
    [] p = "reuse" -> "construct"

\* browser_thread.daemon = True
BrowserNonDaemon ==
  FALSE

BrowserDaemon ==
  TRUE

\* the bare except around webbrowser.open
BrowserErrorUncaught ==
  FALSE

BrowserErrorCaught ==
  TRUE

\* socketserver.TCPServer.allow_reuse_address = True
ReuseDisabled ==
  FALSE

ReuseValue ==
  TRUE

\* http.server.HTTPServer sets allow_reuse_address in its own class body
HTTPServerReuse ==
  TRUE

\* the except clauses of the outer try statement
PrimaryHandler(exc) ==
  IF exc = "KeyboardInterrupt" THEN "kbint" ELSE "fb_construct"

\* the except clause of the inner try statement
FallbackCatchesNothing(exc) ==
  FALSE

FallbackCatchesAll(exc) ==
  TRUE

FallbackCatches(exc) ==
  exc = "KeyboardInterrupt"

\* where an exception raised at position p of main() lands
Propagate(p, exc) ==
  IF p \in {"construct", "serving"}
    THEN PrimaryHandler(exc)
    ELSE IF p \in {"fb_construct", "fb_serving"} /\ FallbackCatches(exc)
      THEN "fb_kbint"
      ELSE "uncaught"

\* TCPServer and HTTPServer handle a request inside serve_forever itself:
\* the next accept waits for the running handler to return
AcceptWhileHandling ==
  TRUE

CanAccept ==
  handling = {}

\* _handle_request_noblock: except Exception -> handle_error
HandlerErrorPropagates(exc) ==
  FALSE

HandlerErrorCaught(exc) ==
  exc # "KeyboardInterrupt"

\* bind() succeeds on a free port, and with SO_REUSEADDR on a port whose
\* previous connections linger in TIME_WAIT
Bindable(reuse) ==
  \/ port = "free"
  \/ port = "timewait" /\ reuse

\* closing a listening socket that accepted connections leaves TIME_WAIT
PortAfterClose ==
  IF log # <<>> \/ handling # {} THEN "timewait" ELSE port

Dropped(S) ==
  [c \in Clients |->
     IF c \in S /\ cstate[c] \in {"silent", "sent"}
       THEN "dropped" ELSE cstate[c]]

InBacklog ==
  {backlog[i] : i \in 1..Len(backlog)}

\* ------------------------------------------------------------------ Init
InitProcess ==
  /\ pc = "banner"
  /\ out = <<>>
  /\ cwd = "launchdir"
  /\ chdirCount = 0
  /\ browser_thread = "unstarted"
  /\ openCount = 0
  /\ openResult = "none"
  /\ allow_reuse_address = FALSE
  /\ httpd = "none"
  /\ constructs = 0
  /\ boundCount = 0
  /\ bindFails = 0
  /\ backlog = <<>>
  /\ handling = {}
  /\ cstate = [c \in Clients |-> "idle"]
  /\ req = [c \in Clients |-> "none"]
  /\ resp = [c \in Clients |-> <<0, "none">>]
  /\ log = <<>>
  /\ intAt = "none"
  /\ exitCode = -1

Init ==
  /\ InitProcess
  /\ port \in {"free", "busy"}
  /\ runs = 1

\* ------------------------------------------------------- the main thread

\* the print calls at the top of main()
Banner ==
  /\ pc = "banner"
  /\ out' = Append(out, "banner")
  /\ pc' = NextLine(pc)
  /\ UNCHANGED <<cwd, chdirCount, allow_reuse_address, httpd, constructs,
                 boundCount, bindFails, intAt, exitCode>>
  /\ UNCHANGED <<browserVars, clientVars, port, runs>>

\* os.chdir(os.path.dirname(os.path.abspath(__file__)))
Chdir ==
  /\ pc = "chdir"
  /\ cwd' = "scriptdir"
  /\ chdirCount' = chdirCount + 1
  /\ pc' = NextLine(pc)
  /\ UNCHANGED <<out, allow_reuse_address, httpd, constructs, boundCount,
                 bindFails, intAt, exitCode>>
  /\ UNCHANGED <<browserVars, clientVars, port, runs>>

\* threading.Thread(target=open_browser); daemon = True; start()
Spawn ==
  /\ pc = "spawn"
  /\ browser_thread' = "sleeping"
  /\ pc' = NextLine(pc)
  /\ UNCHANGED <<out, cwd, chdirCount, allow_reuse_address, httpd,
                 constructs, boundCount, bindFails, intAt, exitCode>>
  /\ UNCHANGED <<openCount, openResult, clientVars, port, runs>>

\* socketserver.TCPServer.allow_reuse_address = True
SetReuse ==
  /\ pc = "reuse"
  /\ allow_reuse_address' = ReuseValue
  /\ pc' = NextLine(pc)
  /\ UNCHANGED <<out, cwd, chdirCount, httpd, constructs, boundCount,
                 bindFails, intAt, exitCode>>
  /\ UNCHANGED <<browserVars, clientVars, port, runs>>

\* the interpreter's report of an exception nothing caught
Unhandled(target) ==
  IF target = "uncaught"
    THEN /\ pc' = "finalizing"
         /\ out' = Append(out, "traceback")
         /\ exitCode' = UnhandledStatus
    ELSE /\ pc' = target
         /\ UNCHANGED <<out, exitCode>>

\* with socketserver.TCPServer(("", port), SimpleHTTPRequestHandler) as httpd
ConstructPrimary ==
  /\ pc = "construct"
  /\ constructs' = constructs + 1
  /\ IF Bindable(allow_reuse_address)
       THEN /\ httpd' = "listening"
            /\ boundCount' = boundCount + 1
            /\ pc' = "serving"
            /\ UNCHANGED <<bindFails, out, exitCode>>
       ELSE /\ bindFails' = bindFails + 1
            /\ Unhandled(Propagate(pc, "OSError"))
            /\ UNCHANGED <<httpd, boundCount>>
  /\ UNCHANGED <<cwd, chdirCount, allow_reuse_address, intAt>>
  /\ UNCHANGED <<browserVars, clientVars, port, runs>>

\* httpd = HTTPServer(("", port), SimpleHTTPRequestHandler)
ConstructFallback ==
  /\ pc = "fb_construct"
  /\ constructs' = constructs + 1
  /\ IF Bindable(HTTPServerReuse)
       THEN /\ httpd' = "listening"
            /\ boundCount' = boundCount + 1
            /\ pc' = "fb_serving"
            /\ UNCHANGED <<bindFails, out, exitCode>>
       ELSE /\ bindFails' = bindFails + 1
            /\ Unhandled(Propagate(pc, "OSError"))
            /\ UNCHANGED <<httpd, boundCount>>
  /\ UNCHANGED <<cwd, chdirCount, allow_reuse_address, intAt>>
  /\ UNCHANGED <<browserVars, clientVars, port, runs>>

\* an exception leaves serve_forever: the running handler's connection is
\* shut down; on the primary path the with statement closes the socket
LeaveServing(exc) ==
  /\ Unhandled(Propagate(pc, exc))
  /\ handling' = {}
  /\ IF pc = "serving"
       THEN /\ httpd' = "closed"
            /\ port' = PortAfterClose
            /\ backlog' = <<>>
            /\ cstate' = Dropped(handling \cup InBacklog)
       ELSE /\ cstate' = Dropped(handling)
            /\ UNCHANGED <<httpd, port, backlog>>

\* Ctrl+C: KeyboardInterrupt raised in the main thread
KeyboardInterrupt ==
  /\ pc \in RunningPcs
  /\ intAt = "none"
  /\ intAt' = pc
  /\ IF pc \in ServingPcs
       THEN LeaveServing("KeyboardInterrupt")
       ELSE /\ Unhandled(Propagate(pc, "KeyboardInterrupt"))
            /\ UNCHANGED <<httpd, port, backlog, handling, cstate>>
  /\ UNCHANGED <<cwd, chdirCount, allow_reuse_address, constructs,
                 boundCount, bindFails>>
  /\ UNCHANGED <<browserVars, req, resp, log, runs>>

\* an error other than an interrupt raised out of serve_forever
ServeError ==
  /\ pc \in ServingPcs
  /\ LeaveServing("OSError")
  /\ UNCHANGED <<cwd, chdirCount, allow_reuse_address, constructs,
                 boundCount, bindFails, intAt>>
  /\ UNCHANGED <<browserVars, req, resp, log, runs>>

\* print("\nServer stopped."); sys.exit(0)
StoppedHandler ==
  /\ pc \in {"kbint", "fb_kbint"}
  /\ out' = Append(out, "stopped")
  /\ exitCode' = ShutdownStatus
  /\ pc' = "finalizing"
  /\ UNCHANGED <<cwd, chdirCount, allow_reuse_address, httpd, constructs,
                 boundCount, bindFails, intAt>>
  /\ UNCHANGED <<browserVars, clientVars, port, runs>>

\* the interpreter ends: it waits for non-daemon threads only, daemon
\* threads are abandoned and the system closes the sockets still open
ProcessExit ==
  /\ pc = "finalizing"
  /\ BrowserDaemon \/ browser_thread \in {"unstarted", "done", "crashed"}
  /\ pc' = "exited"
  /\ browser_thread' =
       IF browser_thread \in {"sleeping", "awake"}
         THEN "killed" ELSE browser_thread
  /\ httpd' = IF httpd = "listening" THEN "closed" ELSE httpd
  /\ port' = IF httpd = "listening" THEN PortAfterClose ELSE port
  /\ backlog' = <<>>
  /\ handling' = {}
  /\ cstate' = Dropped(Clients)
  /\ UNCHANGED <<out, cwd, chdirCount, allow_reuse_address, constructs,
                 boundCount, bindFails, intAt, exitCode>>
  /\ UNCHANGED <<openCount, openResult, req, resp, log, runs>>

\* the launcher is run again: if __name__ == "__main__": main()
Restart ==
  /\ pc = "exited"
  /\ runs < MaxRuns
  /\ runs' = runs + 1
  /\ pc' = "banner"
  /\ out' = <<>>
  /\ cwd' = "launchdir"
  /\ chdirCount' = 0
  /\ browser_thread' = "unstarted"
  /\ openCount' = 0
  /\ openResult' = "none"
  /\ allow_reuse_address' = FALSE
  /\ httpd' = "none"
  /\ constructs' = 0
  /\ boundCount' = 0
  /\ bindFails' = 0
  /\ backlog' = <<>>
  /\ handling' = {}
  /\ cstate' = [c \in Clients |-> "idle"]
  /\ req' = [c \in Clients |-> "none"]
  /\ resp' = [c \in Clients |-> <<0, "none">>]
  /\ log' = <<>>
  /\ intAt' = "none"
  /\ exitCode' = -1
  /\ UNCHANGED port

\* ------------------------------------------------- the open_browser thread

\* time.sleep(1) returns
Wake ==
  /\ browser_thread = "sleeping"
  /\ pc # "exited"
  /\ browser_thread' = "awake"
  /\ UNCHANGED <<mainVars, openCount, openResult, clientVars, port, runs>>

\* webbrowser.open(...) inside try / except: pass
open_browser ==
  /\ browser_thread = "awake"
  /\ pc # "exited"
  /\ \E o \in {"opened", "failed", "raised"} :
       /\ openResult' = o
       /\ openCount' = openCount + 1
       /\ IF o = "raised" /\ ~BrowserErrorCaught
            THEN /\ browser_thread' = "crashed"
                 /\ out' = Append(out, "thread-traceback")
            ELSE /\ browser_thread' = "done"
                 /\ UNCHANGED out
  /\ UNCHANGED <<pc, cwd, chdirCount, allow_reuse_address, httpd,
                 constructs, boundCount, bindFails, intAt, exitCode>>
  /\ UNCHANGED <<clientVars, port, runs>>

\* ------------------------------------------------------ clients and serving

\* a client's connection completes in the kernel's listen queue
Connect(c) ==
  /\ httpd = "listening"
  /\ cstate[c] = "idle"
  /\ cstate' = [cstate EXCEPT ![c] = "silent"]
  /\ backlog' = Append(backlog, c)
  /\ UNCHANGED <<mainVars, browserVars, handling, req, resp, log, port,
                 runs>>

\* the client sends its request line
ClientSend(c, p) ==
  /\ cstate[c] = "silent"
  /\ cstate' = [cstate EXCEPT ![c] = "sent"]
  /\ req' = [req EXCEPT ![c] = p]
  /\ UNCHANGED <<mainVars, browserVars, backlog, handling, resp, log, port,
                 runs>>

\* serve_forever: get_request, then the handler starts
Accept ==
  /\ pc \in ServingPcs
  /\ CanAccept
  /\ backlog # <<>>
  /\ handling' = handling \cup {Head(backlog)}
  /\ backlog' = Tail(backlog)
  /\ UNCHANGED <<mainVars, browserVars, cstate, req, resp, log, port, runs>>

\* SimpleHTTPRequestHandler answers the request and returns
Respond(c) ==
  /\ pc \in ServingPcs
  /\ c \in handling
  /\ cstate[c] = "sent"
  /\ resp' = [resp EXCEPT ![c] = Response(req[c])]
  /\ cstate' = [cstate EXCEPT ![c] = "answered"]
  /\ handling' = handling \ {c}
  /\ log' = Append(log, "answered")
  /\ UNCHANGED <<mainVars, browserVars, backlog, req, port, runs>>

\* the client goes away while the response is written: BrokenPipeError in
\* the handler
BrokenPipe(c) ==
  /\ pc \in ServingPcs
  /\ c \in handling
  /\ cstate[c] = "sent"
  /\ log' = Append(log, "broken")
  /\ IF HandlerErrorCaught("BrokenPipeError")
       THEN /\ cstate' = [cstate EXCEPT ![c] = "dropped"]
            /\ handling' = handling \ {c}
            /\ UNCHANGED <<pc, out, exitCode, httpd, port, backlog>>
       ELSE LeaveServing("BrokenPipeError")
  /\ UNCHANGED <<cwd, chdirCount, allow_reuse_address, constructs,
                 boundCount, bindFails, intAt>>
  /\ UNCHANGED <<browserVars, req, resp, runs>>

\* ------------------------------------------------------ the port's other users

\* another program binds port 8080
TakePort ==
  /\ httpd # "listening"
  /\ port = "free"
  /\ port' = "busy"
  /\ UNCHANGED <<mainVars, browserVars, clientVars, runs>>

\* the other program releases it, or TIME_WAIT runs out
FreePort ==
  /\ port \in {"busy", "timewait"}
  /\ port' = "free"
  /\ UNCHANGED <<mainVars, browserVars, clientVars, runs>>

MainStep ==
  \/ Banner
  \/ Chdir
  \/ Spawn
  \/ SetReuse
  \/ ConstructPrimary
  \/ ConstructFallback
  \/ StoppedHandler
  \/ ProcessExit

Next ==
  \/ Banner
  \/ Chdir
  \/ Spawn
  \/ SetReuse
  \/ ConstructPrimary
  \/ ConstructFallback
  \/ KeyboardInterrupt
  \/ ServeError
  \/ StoppedHandler
  \/ ProcessExit
  \/ Restart
  \/ Wake
  \/ open_browser
  \/ \E c \in Clients : Connect(c)
  \/ \E c \in Clients : \E p \in Paths : ClientSend(c, p)
  \/ Accept
  \/ \E c \in Clients : Respond(c)
  \/ \E c \in Clients : BrokenPipe(c)
  \/ TakePort
  \/ FreePort

Spec ==
  Init /\ [][Next]_vars

\* the main thread runs its straight-line code and its handlers to the end
LiveSpec ==
  Init /\ [][Next]_vars /\ WF_vars(MainStep)

TypeOK ==
  /\ pc \in RunningPcs \cup {"kbint", "fb_kbint", "finalizing", "exited"}
  /\ cwd \in {"launchdir", "scriptdir"}
  /\ browser_thread \in
       {"unstarted", "sleeping", "awake", "done", "crashed", "killed"}
  /\ httpd \in {"none", "listening", "closed"}
  /\ port \in {"free", "busy", "timewait"}
  /\ handling \subseteq Clients
  /\ exitCode \in {-1, ShutdownStatus, UnhandledStatus}
  /\ runs \in 1..MaxRuns

\* --------------------------------------------------------------- helpers
Printed(line) ==
  \E i \in 1..Len(out) : out[i] = line

BrokenSeen ==
  \E i \in 1..Len(log) : log[i] = "broken"

\* ---------------------------------------------------------------- claims

\* C1: a keyboard interrupt that arrives while the server is serving, on the
\* primary or on the fallback path, always brings the process to its exit,
\* and the exited process has printed the shutdown confirmation, has status
\* 0 and holds no listening socket.
C1_InterruptWhileServing ==
  /\ [](pc = "exited" /\ intAt \in ServingPcs
          => /\ exitCode = 0
             /\ Printed("stopped")
             /\ ~Printed("traceback")
             /\ httpd = "closed")
  /\ [](pc = "kbint" /\ intAt = "serving" => httpd = "closed")
  /\ (intAt \in ServingPcs ~> pc = "exited")

C1_Witness ==
  /\ pc = "exited"
  /\ intAt = "fb_serving"
  /\ exitCode = 0
  /\ Printed("stopped")

\* C2: wherever the main thread is when the interrupt arrives, the process
\* exits with status 0, the confirmation printed, the socket released and no
\* stack trace.
C2_InterruptAlwaysClean ==
  pc = "exited" /\ intAt # "none"
    => /\ exitCode = 0
       /\ Printed("stopped")
       /\ ~Printed("traceback")
       /\ httpd # "listening"

\* C3: the outcome of the browser-open attempt never reaches the main
\* thread: an error of webbrowser.open never leaves the opener thread, the
\* opener's step changes nothing of the main thread, and from every startup
\* position the main thread reaches the serving state unless it is
\* interrupted or the bind fails.
C3_BrowserIndependence ==
  /\ [](browser_thread # "crashed" /\ ~Printed("thread-traceback"))
  /\ [][openCount' > openCount
          => UNCHANGED <<pc, httpd, exitCode, intAt, out, constructs>>]_vars
  /\ [](pc \in StartupPcs \cup {"construct"}
          => <>(pc \in ServingPcs \/ intAt # "none" \/ bindFails > 0))

C3_Witness ==
  /\ openResult = "raised"
  /\ browser_thread = "done"
  /\ pc = "serving"
  /\ intAt = "none"

\* C4 (as stated): while one connection is being handled or stalled, another
\* waiting connection can still be taken up and served, and every answered
\* client has the response to its own request.
C4_ConcurrentClients ==
  /\ \A c \in Clients : cstate[c] = "answered" => resp[c] = Response(req[c])
  /\ (pc \in ServingPcs /\ handling # {} /\ backlog # <<>>
        => ENABLED Accept)

\* C4 (amended): connections are handled one at a time in the order they
\* were accepted: at most one handler runs, no connection is accepted while
\* a handler runs (so a stalled connection holds back the others), and
\* every answered client has the response to its own request.
C4_OneAtATime ==
  /\ Cardinality(handling) <= 1
  /\ \A c \in Clients : cstate[c] = "answered" => resp[c] = Response(req[c])
  /\ (handling # {} => ~ENABLED Accept)

C4_Witness ==
  \E c \in Clients : \E d \in Clients :
    /\ c # d
    /\ c \in handling
    /\ cstate[c] = "silent"
    /\ backlog = <<d>>
    /\ cstate[d] = "sent"
    /\ pc = "serving"

\* C5 (as stated): every process that has exited has called the open-URL
\* operation exactly once, and the opener never holds up the exit.
C5_OpenedExactlyOnce ==
  /\ (pc = "exited" => openCount = 1)
  /\ (pc = "finalizing" => ENABLED ProcessExit)

\* C5 (amended): the open-URL operation is called at most once per process:
\* once when the opener has run to its end, not at all when the process
\* exits before the opener's delay has elapsed; and the opener being asleep
\* or pending never holds up the exit.
C5_OpenedAtMostOnce ==
  /\ openCount <= 1
  /\ (browser_thread = "done" => openCount = 1 /\ openResult # "none")
  /\ (browser_thread \in {"unstarted", "sleeping", "awake", "killed"}
        => openCount = 0)
  /\ (pc = "finalizing" => ENABLED ProcessExit)

C5_Witness ==
  /\ pc = "exited"
  /\ browser_thread = "killed"
  /\ openCount = 0
  /\ exitCode = 0

\* C6: the server is bound at most once per process; after an error other
\* than an interrupt raised during serving it is not created or bound again.
C6_ForwardOnly ==
  /\ boundCount <= 1
  /\ (httpd = "closed" => pc \notin {"fb_construct", "fb_serving"})

\* C7: a failed bind on the primary path leads to exactly one further
\* construction attempt, on the fallback path; when that bind fails too the
\* exception is unhandled: status 1 with a stack trace, never status 0 and
\* never the shutdown confirmation.
C7_BindFailure ==
  /\ constructs <= 2
  /\ (bindFails >= 1 /\ constructs = 1
        => pc = "fb_construct" \/ intAt = "fb_construct")
  /\ (bindFails = 2
        => /\ pc \in {"finalizing", "exited"}
           /\ exitCode = UnhandledStatus
           /\ exitCode # 0
           /\ Printed("traceback")
           /\ ~Printed("stopped"))

C7_Witness ==
  /\ bindFails = 2
  /\ constructs = 2
  /\ pc = "exited"
  /\ exitCode = 1

\* C8: a broken pipe in a handler leaves the server where it was: still
\* serving on the same path with the listening socket open and no handler
\* running, and whenever a connection waits after a broken pipe the server
\* can accept it.
C8_BrokenPipeNonFatal ==
  /\ [][Len(log') > Len(log) /\ log'[Len(log')] = "broken"
          => /\ pc' = pc
             /\ pc' \in ServingPcs
             /\ httpd' = "listening"
             /\ handling' = {}
             /\ exitCode' = -1
             /\ backlog' = backlog]_vars
  /\ [](BrokenSeen /\ pc \in ServingPcs /\ handling = {} /\ backlog # <<>>
          => ENABLED Accept)

C8_Witness ==
  /\ log = <<"broken", "broken", "answered">> \/ log = <<"broken", "answered">>
  /\ pc = "serving"
  /\ httpd = "listening"
  /\ constructs = 1

\* C9: address reuse is on before a listening socket exists, on the primary
\* and on the fallback path, and a bind never fails on a port that is only
\* in the wait state left by an earlier server process.
C9_ReuseBeforeBind ==
  /\ [](pc \in {"construct", "serving", "fb_construct", "fb_serving"}
          \/ httpd # "none"
          => allow_reuse_address /\ HTTPServerReuse)
  /\ [][bindFails' > bindFails => port = "busy"]_vars

C9_Witness ==
  /\ runs = 2
  /\ httpd = "listening"
  /\ port = "timewait"
  /\ bindFails = 0

\* C10: the working directory is changed at most once per process, to the
\* script's directory, and that change has been made by the time the opener
\* thread is started or a server is constructed; no other step changes it.
C10_ChdirOnceFirst ==
  /\ [](chdirCount <= 1)
  /\ [](cwd = "scriptdir" <=> chdirCount = 1)
  /\ [](browser_thread # "unstarted" \/ constructs > 0 \/ httpd # "none"
          => chdirCount = 1 /\ cwd = "scriptdir")
  /\ [][cwd' # cwd => pc = "chdir" \/ pc = "exited"]_vars

C10_Witness ==
  /\ chdirCount = 1
  /\ cwd = "scriptdir"
  /\ browser_thread = "done"
  /\ pc = "fb_serving"
  /\ boundCount = 2
====
